---- MODULE Spec2Model ----
(***************************************************************************)
(* Serving control plane of the financial-rag service: the sliding-window  *)
(* rate limiter (src/rate_limit.py), the credential gates (src/deps.py),   *)
(* and the routes of app.py (snapshot publication, ingest jobs, /query).   *)
(*                                                                         *)
(* Python values are encoded as follows.  None is the empty tuple; an      *)
(* optional string or integer v is the one-element tuple <<v>>; objects    *)
(* and dicts are records, so "key in dict" is membership in DOMAIN.        *)
(* time.time() is an integer number of seconds.                            *)
(*                                                                         *)
(* Granularity.  run_ingest_job is one step per await.  The synchronous    *)
(* branch of ingest_documents is one step.  query_rag is one step up to    *)
(* the call of query(), then one step per collaborator call; the event     *)
(* loop runs these back to back, so the schedules of the model include     *)
(* those of the process.  The read-only routes (GET /ingest/{job_id}, GET  *)
(* /health) are operators: the response they give in the current state.    *)
(* require_api_key and check_rate_limit are resolved in the order of the   *)
(* handler's signature; check_rate_limit is a coroutine without an await,  *)
(* so one call of RateLimiter.check is one step.                           *)
(***************************************************************************)
EXTENDS Integers, Sequences, FiniteSets, TLC

VARIABLES
    settings,             \* src/config.py: the Settings instance
    now,                  \* the value time.time() returns
    requests_per_minute,  \* RateLimiter.requests_per_minute
    requests,             \* RateLimiter.requests: key -> list of timestamps
    admitted,             \* history: key -> times of the checks that returned
    lastCheck,            \* history: the last call of RateLimiter.check
    nchecks,              \* history: number of calls of RateLimiter.check
    gateCall,             \* history: the last direct call of a gate
    rag,                  \* app.state.rag: None or a RAGState
    ingest_jobs,          \* app.state.ingest_jobs: job id -> job record
    disk,                 \* the index directory: None or index + metadata.json
    started,              \* whether the startup event has run
    runs,                 \* one entry per POST /ingest: its handler and task
    queries               \* one entry per POST /query: its handler

limiterVars == <<now, requests_per_minute, requests, admitted, lastCheck, nchecks>>
appVars == <<rag, ingest_jobs, disk, started, runs, queries>>
vars == <<settings, now, requests_per_minute, requests, admitted, lastCheck,
          nchecks, gateCall, rag, ingest_jobs, disk, started, runs, queries>>

(***************************************************************************)
(* Bounds                                                                  *)
(***************************************************************************)
MaxTime == 125        \* the clock stops advancing here
MaxChecks == 5        \* calls of RateLimiter.check in the limiter scenarios
MaxCeiling == 2       \* largest ceiling a test instance is built with
MaxIngests == 2       \* POST /ingest requests
MaxQueries == 1       \* POST /query requests
MaxAdmissions == 62   \* /query requests in the admission scenarios

(***************************************************************************)
(* Python values                                                           *)
(***************************************************************************)
None == << >>
Some(v) == <<v>>
Val(o) == o[1]
\* Python truthiness of an optional string: None and "" are falsy.
Falsy(o) == o = None \/ o = Some("")

Min(a, b) == IF a <= b THEN a ELSE b

(***************************************************************************)
(* src/config.py                                                           *)
(***************************************************************************)
DEFAULT_RATE_LIMIT_PER_MINUTE == 60
Envs == {"local", "prod"}
Secrets == {"", "secret123", "admin456"}
DefaultSettings ==
    [ENV |-> "local", API_KEY |-> "", ADMIN_API_KEY |-> "",
     EMBEDDINGS_PROVIDER |-> "sentence_transformers",
     EMBEDDINGS_MODEL |-> "all-MiniLM-L6-v2",
     RATE_LIMIT_PER_MINUTE |-> DEFAULT_RATE_LIMIT_PER_MINUTE]

(***************************************************************************)
(* src/rate_limit.py                                                       *)
(***************************************************************************)
Window == 60
SINGLETON_REQUESTS_PER_MINUTE == 60

\* Header values a request may carry.
ApiKeyHeaders == {None, Some(""), Some("secret123"), Some("wrongkey")}
AdminKeyHeaders == {None, Some(""), Some("admin456"), Some("wrongkey")}
\* X-Forwarded-For as the list of its comma-separated, stripped entries.
ForwardedHeaders == {None, <<"10.0.0.1", "10.0.0.9">>}
ClientHosts == {"127.0.0.1"}
Requests ==
    [x_api_key : ApiKeyHeaders, x_forwarded_for : ForwardedHeaders,
     client_host : ClientHosts]

\* RateLimiter._get_key
get_keyAddressFirst(request) ==
    IF request.x_forwarded_for # None
    THEN <<"ip", request.x_forwarded_for[1]>>
    ELSE IF ~Falsy(request.x_api_key)
         THEN <<"key", Val(request.x_api_key)>>
         ELSE <<"ip", request.client_host>>
get_key(request) ==
    IF ~Falsy(request.x_api_key)
    THEN <<"key", Val(request.x_api_key)>>
    ELSE IF request.x_forwarded_for # None
         THEN <<"ip", request.x_forwarded_for[1]>>
         ELSE <<"ip", request.client_host>>

\* defaultdict(list).__getitem__ without the insertion
Bucket(reqs, key) == IF key \in DOMAIN reqs THEN reqs[key] ELSE << >>

\* The list comprehension of RateLimiter.check
PruneKeepsAll(bucket, t) == bucket
Prune(bucket, t) == SelectSeq(bucket, LAMBDA ts : ts > t - Window)

\* The ceiling test of RateLimiter.check
AtCeilingOffByOne(bucket, rpm) == Len(bucket) > rpm
AtCeiling(bucket, rpm) == Len(bucket) >= rpm

\* RateLimiter.check: the new bucket table and the status raised (0: none)
checkPrunesAll(reqs, rpm, request, t) ==
    LET key == get_key(request)
        pruned == Prune(Bucket(reqs, key), t)
        raised == AtCeiling(pruned, rpm)
        bucket == IF raised THEN pruned ELSE Append(pruned, t)
    IN  [requests |-> [k \in DOMAIN reqs \cup {key} |->
                          IF k = key THEN bucket ELSE Prune(reqs[k], t)],
         key |-> key,
         raised |-> IF raised THEN 429 ELSE 0]
check(reqs, rpm, request, t) ==
    LET key == get_key(request)
        pruned == Prune(Bucket(reqs, key), t)
        raised == AtCeiling(pruned, rpm)
        bucket == IF raised THEN pruned ELSE Append(pruned, t)
    IN  [requests |-> [k \in DOMAIN reqs \cup {key} |->
                          IF k = key THEN bucket ELSE reqs[k]],
         key |-> key,
         raised |-> IF raised THEN 429 ELSE 0]

\* Number of admitted calls of a key in the trailing window (t - 60, t]
AdmittedIn(key, t) ==
    IF key \in DOMAIN admitted
    THEN Cardinality({i \in DOMAIN admitted[key] :
                         admitted[key][i] > t - Window /\ admitted[key][i] <= t})
    ELSE 0

\* Bookkeeping of one call of check at the current time
Checked(request, r) ==
    /\ requests' = r.requests
    /\ nchecks' = nchecks + 1
    /\ lastCheck' = [key |-> r.key, at |-> now, raised |-> r.raised,
                     before |-> AdmittedIn(r.key, now)]
    /\ admitted' =
         IF r.raised = 0
         THEN [k \in DOMAIN admitted \cup {r.key} |->
                  IF k = r.key
                  THEN Append(IF k \in DOMAIN admitted THEN admitted[k] ELSE << >>, now)
                  ELSE admitted[k]]
         ELSE admitted

\* limiter.check(request) called on an instance, as the unit tests do
LimiterCheckRacing(request) ==
    /\ nchecks < MaxChecks
    /\ LET r == check(requests, requests_per_minute, request, now)
           old == IF r.key \in DOMAIN admitted THEN admitted[r.key] ELSE << >>
       IN  /\ requests' = r.requests
           /\ nchecks' = nchecks + 1
           /\ lastCheck' = [key |-> r.key, at |-> now, raised |-> r.raised,
                            before |-> AdmittedIn(r.key, now)]
           /\ admitted' =
                IF r.raised = 0
                THEN [k \in DOMAIN admitted \cup {r.key} |->
                         IF k = r.key THEN Append(Append(old, now), now)
                         ELSE admitted[k]]
                ELSE admitted
    /\ UNCHANGED <<settings, now, requests_per_minute, gateCall>>
    /\ UNCHANGED appVars
LimiterCheck(request) ==
    /\ nchecks < MaxChecks
    /\ Checked(request, check(requests, requests_per_minute, request, now))
    /\ UNCHANGED <<settings, now, requests_per_minute, gateCall>>
    /\ UNCHANGED appVars

\* time passes between calls; time.time() is non-decreasing
TickSteps == {59, 60, 61}
Tick(d) ==
    /\ now + d <= MaxTime
    /\ now' = now + d
    /\ UNCHANGED <<settings, requests_per_minute, requests, admitted,
                   lastCheck, nchecks, gateCall>>
    /\ UNCHANGED appVars

(***************************************************************************)
(* src/deps.py                                                             *)
(***************************************************************************)
\* require_api_key: the status raised (0: the dependency returns)
require_api_key_NoneOnly(s, x_api_key) ==
    IF s.ENV # "prod" THEN 0
    ELSE IF x_api_key = None THEN 401
    ELSE IF Val(x_api_key) # s.API_KEY THEN 403
    ELSE 0
require_api_key(s, x_api_key) ==
    IF s.ENV # "prod" THEN 0
    ELSE IF Falsy(x_api_key) THEN 401
    ELSE IF Val(x_api_key) # s.API_KEY THEN 403
    ELSE 0

\* require_admin_key
require_admin_key(s, x_admin_key) ==
    IF s.ENV # "prod" THEN 0
    ELSE IF Falsy(x_admin_key) THEN 401
    ELSE IF Val(x_admin_key) # s.ADMIN_API_KEY THEN 403
    ELSE 0

\* check_rate_limit: whether limiter.check ran, and what it did
check_rate_limitAlways(s, reqs, rpm, request, t) ==
    LET r == check(reqs, rpm, request, t)
    IN  [ran |-> TRUE, requests |-> r.requests, key |-> r.key,
         raised |-> r.raised]
check_rate_limit(s, reqs, rpm, request, t) ==
    IF s.ENV # "prod"
    THEN [ran |-> FALSE, requests |-> reqs, key |-> None, raised |-> 0]
    ELSE LET r == check(reqs, rpm, request, t)
         IN  [ran |-> TRUE, requests |-> r.requests, key |-> r.key,
              raised |-> r.raised]

\* The dependencies of POST /query, resolved in the order of the signature:
\* the status the request is refused with (0: the handler body runs) and the
\* call of limiter.check made on the way
QueryDependenciesRateFirst(s, reqs, rpm, request, t) ==
    LET auth == require_api_key(s, request.x_api_key)
        rate == check_rate_limit(s, reqs, rpm, request, t)
    IN  [raised |-> IF rate.raised # 0 THEN rate.raised ELSE auth,
         limiter |-> rate]
QueryDependencies(s, reqs, rpm, request, t) ==
    LET auth == require_api_key(s, request.x_api_key)
        rate == check_rate_limit(s, reqs, rpm, request, t)
    IN  IF auth # 0
        THEN [raised |-> auth,
              limiter |-> [ran |-> FALSE, requests |-> reqs, key |-> None,
                           raised |-> 0]]
        ELSE [raised |-> rate.raised, limiter |-> rate]

\* One POST /query up to the handler body: the two dependencies
AdmissionRequests == Requests
Admission(request) ==
    /\ nchecks < MaxAdmissions
    /\ LET dep == QueryDependencies(settings, requests, requests_per_minute,
                                    request, now)
       IN  /\ IF dep.limiter.ran
              THEN Checked(request, dep.limiter)
              ELSE UNCHANGED <<requests, admitted, lastCheck, nchecks>>
           /\ gateCall' = [gate |-> "query", header |-> request.x_api_key,
                           raised |-> dep.raised, request |-> request]
    /\ UNCHANGED <<settings, now, requests_per_minute>>
    /\ UNCHANGED appVars

Gates == {"query", "admin"}
GateHeaders == ApiKeyHeaders \cup AdminKeyHeaders
\* One direct call of a gate with a header value
GateCheck(gate, header) ==
    /\ gateCall' = [gate |-> gate, header |-> header,
                    raised |-> IF gate = "query"
                               THEN require_api_key(settings, header)
                               ELSE require_admin_key(settings, header)]
    /\ UNCHANGED <<settings, now, requests_per_minute, requests, admitted,
                   lastCheck, nchecks>>
    /\ UNCHANGED appVars

(***************************************************************************)
(* Collaborators: src/ingestion.py, src/embeddings.py, src/retrieval.py.   *)
(* An index is identified by the run that built it and holds n chunks.     *)
(***************************************************************************)
DEFAULT_K == 4
DiskBuild == 0
ChunkCounts == {3}
Exceptions == {"FileNotFoundError", "Exception"}

\* ingest(): the chunk list (its length) or the exception it raises;
\* load_pdfs raises FileNotFoundError when the data directory is missing
IngestOutcomes ==
    {[ok |-> TRUE, chunks |-> n] : n \in ChunkCounts}
        \cup {[ok |-> FALSE, exc |-> e] : e \in Exceptions}

\* create_index(chunks)
create_index(chunks, build) == [build |-> build, n |-> chunks]

\* the metadata record save_index writes and load_index compares
Metadata(s) == [provider |-> s.EMBEDDINGS_PROVIDER, model |-> s.EMBEDDINGS_MODEL]

\* save_index(index): the directory after the call; it may raise before
\* index.save_local has written, or between save_local and metadata.json
SaveOutcomes == {"ok", "raise_before", "raise_after_save_local"}
save_index(d, index, s, out) ==
    CASE out = "ok" -> [index |-> index, metadata |-> Some(Metadata(s))]
      [] out = "raise_before" -> d
      [] out = "raise_after_save_local" ->
            [index |-> index,
             metadata |-> IF d = None THEN None ELSE d.metadata]

\* load_index(): the index or the exception raised
load_indexProviderOnly(d, s) ==
    IF d = None THEN [ok |-> FALSE, exc |-> "FileNotFoundError"]
    ELSE IF d.metadata # None /\ Val(d.metadata).provider # s.EMBEDDINGS_PROVIDER
         THEN [ok |-> FALSE, exc |-> "ValueError"]
    ELSE [ok |-> TRUE, index |-> d.index]
load_index(d, s) ==
    IF d = None THEN [ok |-> FALSE, exc |-> "FileNotFoundError"]
    ELSE IF d.metadata # None /\ Val(d.metadata).provider # s.EMBEDDINGS_PROVIDER
         THEN [ok |-> FALSE, exc |-> "ValueError"]
    ELSE IF d.metadata # None /\ Val(d.metadata).model # s.EMBEDDINGS_MODEL
         THEN [ok |-> FALSE, exc |-> "ValueError"]
    ELSE [ok |-> TRUE, index |-> d.index]

\* create_chain(index, k=DEFAULT_K): the chain keeps the retriever of its index
create_chain(index, k) == [index |-> index, k |-> k]

\* chain.retriever.invoke(question): the top-k documents of the chain's index
Retrieve(chain) ==
    [i \in 1..Min(chain.k, chain.index.n) |->
        [metadata |-> [source |-> chain.index.build, chunk_id |-> i],
         page_content |-> i]]

\* chain.invoke(question): the answer generated over the chain's index
Generate(chain) == <<"answer", chain.index.build>>

\* doc_to_citation(doc, index)
doc_to_citation(doc, index) ==
    [source |-> doc.metadata.source, chunk_id |-> doc.metadata.chunk_id,
     snippet |-> doc.page_content, page |-> None, section |-> None]

\* the dict query() returns
query_result(answer, docs) ==
    [answer |-> answer,
     citations |-> [i \in DOMAIN docs |-> doc_to_citation(docs[i], i - 1)]]

(***************************************************************************)
(* app.py                                                                  *)
(***************************************************************************)
RAGState(chain, index) == [chain |-> chain, index |-> index]

HTTPException(status_code, detail) ==
    [code |-> status_code, body |-> [detail |-> detail]]

\* response_model=...: the returned content is validated against the
\* model's required fields; a content that lacks one is a server error
IngestResponseFields == {"status", "chunks_processed"}
QueryResponseFields == {"answer", "sources"}
ResponseModel(fields, content) ==
    IF fields \subseteq DOMAIN content
    THEN [code |-> 200, body |-> [f \in fields |-> content[f]]]
    ELSE HTTPException(500, "Internal Server Error")

\* QueryRequest: k defaults to 4
QueryKs == {None, Some(2)}
QueryRequest(k) == IF k = None THEN 4 ELSE Val(k)

\* The requests sent to /query
QueryRequests ==
    {r \in Requests : r.x_api_key # Some("") /\ r.x_forwarded_for = None}

\* exc and replaced are history: the exception the handler caught, and whether
\* the run assigned app.state.rag
IdleRun == [pc |-> "idle", chunks |-> None, new_index |-> None,
            resp |-> None, exc |-> None, replaced |-> FALSE]
IdleQuery == [pc |-> "idle", k |-> None, rag |-> None, docs |-> None,
              answer |-> None, retr_on |-> None, gen_on |-> None,
              resp |-> None]

\* ids are handed out in order (uuid4 never repeats)
NextRun(r) == runs[r].pc = "idle" /\ \A p \in 1..(r - 1) : runs[p].pc # "idle"
NextQuery(q) ==
    queries[q].pc = "idle" /\ \A p \in 1..(q - 1) : queries[p].pc # "idle"

\* the assignment app.state.rag = RAGState(chain=new_chain, index=new_index)
SwapKeepsNewest(current, new_chain, new_index) ==
    IF current # None /\ current.index.build > new_index.build
    THEN current
    ELSE RAGState(new_chain, new_index)
Swap(current, new_chain, new_index) == RAGState(new_chain, new_index)

\* startup(): load the persisted index if there is one
StartupOutcomes == {"ok", "raise"}
startup(out) ==
    /\ ~started
    /\ started' = TRUE
    /\ LET l == load_index(disk, settings)
       IN  rag' = IF l.ok /\ out = "ok"
                  THEN Swap(rag, create_chain(l.index, DEFAULT_K), l.index)
                  ELSE rag
    /\ UNCHANGED <<settings, gateCall, ingest_jobs, disk, runs, queries>>
    /\ UNCHANGED limiterVars

\* the else branch of ingest_documents: the synchronous pipeline
SyncOutcomes ==
    {o \in [ingest : IngestOutcomes, create_index : {"ok", "raise"},
            save_index : SaveOutcomes, create_chain : {"ok", "raise"}] :
        /\ ~o.ingest.ok => o.create_index = "ok"
        /\ o.create_index = "raise" => o.save_index = "ok"
        /\ o.save_index # "ok" => o.create_chain = "ok"}
\* in prod the pipeline runs in the task: the request draws no outcome
NoOutcome == [ingest |-> [ok |-> FALSE, exc |-> "Exception"],
              create_index |-> "ok", save_index |-> "ok", create_chain |-> "ok"]
SyncPipeline(r, o, not_found) ==
    LET new_index == create_index(o.ingest.chunks, r)
        saved == save_index(disk, new_index, settings, o.save_index)
        \* except FileNotFoundError -> 404; except Exception -> 500
        caught(d, exc) ==
            [rag |-> rag, disk |-> d, replaced |-> FALSE, exc |-> Some(exc),
             resp |-> IF exc = "FileNotFoundError"
                      THEN HTTPException(not_found, exc)
                      ELSE HTTPException(500, exc)]
    IN  IF ~o.ingest.ok THEN caught(disk, o.ingest.exc)
        ELSE IF o.create_index = "raise" THEN caught(disk, "Exception")
        ELSE IF o.save_index # "ok" THEN caught(saved, "Exception")
        ELSE IF o.create_chain = "raise" THEN caught(saved, "Exception")
        ELSE [rag |-> Swap(rag, create_chain(new_index, DEFAULT_K), new_index),
              disk |-> saved, replaced |-> TRUE, exc |-> None,
              resp |-> ResponseModel(IngestResponseFields,
                          [status |-> "success",
                           chunks_processed |-> o.ingest.chunks])]
SyncRunExceptionFirst(r, o) == SyncPipeline(r, o, 500)
SyncRun(r, o) == SyncPipeline(r, o, 404)

\* the job record ingest_documents registers
NewJob(job_id) ==
    [job_id |-> job_id, status |-> "pending", progress |-> None,
     chunks_processed |-> None, error |-> None, started_at |-> now,
     completed_at |-> None]

\* POST /ingest
ingest_documents(r, x_admin_key, o) ==
    /\ started
    /\ NextRun(r)
    /\ LET auth == require_admin_key(settings, x_admin_key)
           sync == SyncRun(r, o)
       IN  IF auth # 0
           THEN /\ runs' = [runs EXCEPT ![r] =
                       [@ EXCEPT !.pc = "done",
                                 !.resp = HTTPException(auth, "gate")]]
                /\ UNCHANGED <<ingest_jobs, rag, disk>>
           ELSE IF settings.ENV = "prod"
           THEN /\ ingest_jobs' =
                       [j \in DOMAIN ingest_jobs \cup {r} |->
                           IF j = r THEN NewJob(r) ELSE ingest_jobs[j]]
                /\ runs' = [runs EXCEPT ![r] =
                       [@ EXCEPT !.pc = "created",
                                 !.resp = ResponseModel(IngestResponseFields,
                                     [job_id |-> r, status |-> "started"])]]
                /\ UNCHANGED <<rag, disk>>
           ELSE /\ rag' = sync.rag
                /\ disk' = sync.disk
                /\ runs' = [runs EXCEPT ![r] =
                       [@ EXCEPT !.pc = "done", !.resp = sync.resp,
                                 !.exc = sync.exc,
                                 !.replaced = sync.replaced]]
                /\ UNCHANGED ingest_jobs
    /\ UNCHANGED <<settings, gateCall, started, queries>>
    /\ UNCHANGED limiterVars

\* run_ingest_job: the except clause
JobFailedNoCompletedAt(r, exc) ==
    /\ ingest_jobs' = [ingest_jobs EXCEPT
                          ![r].status = "failed",
                          ![r].error = Some(exc)]
    /\ runs' = [runs EXCEPT ![r].pc = "done", ![r].chunks = None,
                            ![r].new_index = None, ![r].exc = Some(exc)]
JobFailed(r, exc) ==
    /\ ingest_jobs' = [ingest_jobs EXCEPT
                          ![r].status = "failed",
                          ![r].error = Some(exc),
                          ![r].completed_at = Some(now)]
    /\ runs' = [runs EXCEPT ![r].pc = "done", ![r].chunks = None,
                            ![r].new_index = None, ![r].exc = Some(exc)]

\* run_ingest_job: from the start of the task to the first await
JobStartKeepsPending(r) ==
    /\ runs[r].pc = "created"
    /\ ingest_jobs' = [ingest_jobs EXCEPT
                          ![r].progress = Some("Loading documents...")]
    /\ runs' = [runs EXCEPT ![r].pc = "ingest"]
    /\ UNCHANGED <<settings, gateCall, rag, disk, started, queries>>
    /\ UNCHANGED limiterVars
JobStart(r) ==
    /\ runs[r].pc = "created"
    /\ ingest_jobs' = [ingest_jobs EXCEPT
                          ![r].status = "running",
                          ![r].progress = Some("Loading documents...")]
    /\ runs' = [runs EXCEPT ![r].pc = "ingest"]
    /\ UNCHANGED <<settings, gateCall, rag, disk, started, queries>>
    /\ UNCHANGED limiterVars

\* run_ingest_job: await asyncio.to_thread(ingest) returns or raises
JobIngestLosesFailure(r, out) ==
    /\ runs[r].pc = "ingest"
    /\ IF out.ok
       THEN /\ ingest_jobs' = [ingest_jobs EXCEPT
                                  ![r].progress = Some("Creating embeddings...")]
            /\ runs' = [runs EXCEPT ![r].pc = "create_index",
                                    ![r].chunks = Some(out.chunks)]
       ELSE /\ runs' = [runs EXCEPT ![r].pc = "done",
                                    ![r].exc = Some(out.exc)]
            /\ UNCHANGED ingest_jobs
    /\ UNCHANGED <<settings, gateCall, rag, disk, started, queries>>
    /\ UNCHANGED limiterVars
JobIngest(r, out) ==
    /\ runs[r].pc = "ingest"
    /\ IF out.ok
       THEN /\ ingest_jobs' = [ingest_jobs EXCEPT
                                  ![r].progress = Some("Creating embeddings...")]
            /\ runs' = [runs EXCEPT ![r].pc = "create_index",
                                    ![r].chunks = Some(out.chunks)]
       ELSE JobFailed(r, out.exc)
    /\ UNCHANGED <<settings, gateCall, rag, disk, started, queries>>
    /\ UNCHANGED limiterVars

\* run_ingest_job: await asyncio.to_thread(create_index, chunks)
JobCreateIndex(r, out) ==
    /\ runs[r].pc = "create_index"
    /\ IF out = "ok"
       THEN /\ ingest_jobs' = [ingest_jobs EXCEPT
                                  ![r].progress = Some("Saving index...")]
            /\ runs' = [runs EXCEPT
                           ![r].pc = "save_index",
                           ![r].new_index = create_index(Val(runs[r].chunks), r)]
       ELSE JobFailed(r, "Exception")
    /\ UNCHANGED <<settings, gateCall, rag, disk, started, queries>>
    /\ UNCHANGED limiterVars

\* run_ingest_job: await asyncio.to_thread(save_index, new_index)
JobSaveIndex(r, out) ==
    /\ runs[r].pc = "save_index"
    /\ disk' = save_index(disk, runs[r].new_index, settings, out)
    /\ IF out = "ok"
       THEN /\ runs' = [runs EXCEPT ![r].pc = "create_chain"]
            /\ UNCHANGED ingest_jobs
       ELSE JobFailed(r, "Exception")
    /\ UNCHANGED <<settings, gateCall, rag, started, queries>>
    /\ UNCHANGED limiterVars

\* run_ingest_job: await asyncio.to_thread(create_chain, new_index), the
\* swap and the completion of the job
JobCreateChainSwapsFirst(r, out) ==
    /\ runs[r].pc = "create_chain"
    /\ rag' = Swap(rag, create_chain(runs[r].new_index, DEFAULT_K),
                   runs[r].new_index)
    /\ IF out = "ok"
       THEN /\ ingest_jobs' = [ingest_jobs EXCEPT
                                  ![r].status = "completed",
                                  ![r].chunks_processed = runs[r].chunks,
                                  ![r].completed_at = Some(now)]
            /\ runs' = [runs EXCEPT ![r].pc = "done", ![r].replaced = TRUE,
                                    ![r].chunks = None, ![r].new_index = None]
       ELSE JobFailed(r, "Exception")
    /\ UNCHANGED <<settings, gateCall, disk, started, queries>>
    /\ UNCHANGED limiterVars
JobCreateChain(r, out) ==
    /\ runs[r].pc = "create_chain"
    /\ IF out = "ok"
       THEN /\ rag' = Swap(rag, create_chain(runs[r].new_index, DEFAULT_K),
                           runs[r].new_index)
            /\ ingest_jobs' = [ingest_jobs EXCEPT
                                  ![r].status = "completed",
                                  ![r].chunks_processed = runs[r].chunks,
                                  ![r].completed_at = Some(now)]
            /\ runs' = [runs EXCEPT ![r].pc = "done", ![r].replaced = TRUE,
                                    ![r].chunks = None, ![r].new_index = None]
       ELSE /\ JobFailed(r, "Exception")
            /\ UNCHANGED rag
    /\ UNCHANGED <<settings, gateCall, disk, started, queries>>
    /\ UNCHANGED limiterVars

\* GET /ingest/{job_id}: a read of the registry; the response it gives in the
\* current state
JobIds == 0..MaxIngests
get_ingest_status(job_id, x_admin_key) ==
    LET auth == require_admin_key(settings, x_admin_key)
    IN  IF auth # 0 THEN HTTPException(auth, "gate")
        ELSE IF settings.ENV # "prod"
        THEN HTTPException(404, "Job status only available in prod")
        ELSE IF job_id \notin DOMAIN ingest_jobs
        THEN HTTPException(404, "Job not found")
        ELSE [code |-> 200,
              body |-> [job_id |-> ingest_jobs[job_id].job_id,
                        status |-> ingest_jobs[job_id].status,
                        progress |-> ingest_jobs[job_id].progress,
                        chunks_processed |->
                            ingest_jobs[job_id].chunks_processed,
                        error |-> ingest_jobs[job_id].error]]

\* GET /health: a read of app.state.rag
healthFromDisk == [code |-> 200,
                   body |-> [status |-> "ok", index_loaded |-> disk # None]]
health == [code |-> 200,
           body |-> [status |-> "ok", index_loaded |-> rag # None]]

\* the chain the generation call of query() runs on: its argument
GenerationChainPublished(captured, published) == published.chain
GenerationChain(captured, published) == captured.chain

\* the guard of query_rag: no snapshot, no query
NotReadyInsideTry(captured) == HTTPException(500, "No index loaded. Call /ingest first")
NotReady(captured) == HTTPException(400, "No index loaded. Call /ingest first")

\* POST /query: the dependencies, then the handler up to the call of query()
query_rag(q, request, k) ==
    /\ started
    /\ NextQuery(q)
    /\ LET dep == QueryDependencies(settings, requests, requests_per_minute,
                                    request, now)
       IN  /\ IF dep.limiter.ran
              THEN Checked(request, dep.limiter)
              ELSE UNCHANGED <<requests, admitted, lastCheck, nchecks>>
           /\ queries' = [queries EXCEPT ![q] =
                 IF dep.raised \in {401, 403}
                 THEN [@ EXCEPT !.pc = "done",
                                !.resp = HTTPException(dep.raised, "gate")]
                 ELSE IF dep.raised # 0
                 THEN [@ EXCEPT !.pc = "done",
                                !.resp = HTTPException(429, "Rate limit exceeded")]
                 ELSE IF rag = None
                 THEN [@ EXCEPT !.pc = "done", !.resp = NotReady(rag)]
                 ELSE [@ EXCEPT !.pc = "retrieve", !.k = Some(QueryRequest(k)),
                                !.rag = rag]]
    /\ UNCHANGED <<settings, now, requests_per_minute, gateCall>>
    /\ UNCHANGED <<rag, ingest_jobs, disk, started, runs>>

\* query(): docs = chain.retriever.invoke(question)
CallOutcomes == {"ok", "raise"}
QueryRetrieve(q, out) ==
    /\ queries[q].pc = "retrieve"
    /\ queries' = [queries EXCEPT ![q] =
          IF out = "ok"
          THEN [@ EXCEPT !.pc = "generate",
                         !.retr_on = queries[q].rag.chain,
                         !.docs = Retrieve(queries[q].rag.chain)]
          ELSE [IdleQuery EXCEPT !.pc = "done",
                                 !.resp = HTTPException(500, "Exception")]]
    /\ UNCHANGED <<settings, gateCall, rag, ingest_jobs, disk, started, runs>>
    /\ UNCHANGED limiterVars

\* the try block of query_rag once query() has returned its dict
QueryResponse(result) ==
    IF QueryResponseFields \subseteq DOMAIN result
    THEN [code |-> 200,
          body |-> [answer |-> result.answer, sources |-> result.sources]]
    ELSE HTTPException(500, "'sources'")

\* query(): answer = chain.invoke(question), the citations, and the response
QueryGenerate(q, out) ==
    /\ queries[q].pc = "generate"
    /\ LET chain == GenerationChain(queries[q].rag, rag)
           answer == Generate(chain)
       IN  queries' = [queries EXCEPT ![q] =
              IF out = "ok"
              THEN [@ EXCEPT !.pc = "done", !.gen_on = chain,
                             !.answer = answer,
                             !.resp = QueryResponse(
                                 query_result(answer, queries[q].docs))]
              ELSE [IdleQuery EXCEPT !.pc = "done",
                                     !.resp = HTTPException(500, "Exception")]]
    /\ UNCHANGED <<settings, gateCall, rag, ingest_jobs, disk, started, runs>>
    /\ UNCHANGED limiterVars

(***************************************************************************)
(* Specifications                                                          *)
(***************************************************************************)
InitLimiterVars(rpm) ==
    /\ now = 0
    /\ requests_per_minute = rpm
    /\ requests = << >>
    /\ admitted = << >>
    /\ lastCheck = None
    /\ nchecks = 0

\* app.state at import time; the index directory is as the last process left it
InitApp(d) ==
    /\ rag = None
    /\ ingest_jobs = << >>
    /\ disk = d
    /\ started = FALSE
    /\ runs = [r \in 1..MaxIngests |-> IdleRun]
    /\ queries = [q \in 1..MaxQueries |-> IdleQuery]

\* A RateLimiter instance with a small ceiling, driven call by call
InitLimiter ==
    /\ settings = DefaultSettings
    /\ \E rpm \in 1..MaxCeiling : InitLimiterVars(rpm)
    /\ gateCall = None
    /\ InitApp(None)

\* The requests of the limiter scenarios: one caller identified by its API
\* key, one by its forwarded address, one by its connection address
LimiterRequests ==
    {r \in Requests : r.x_api_key \in {None, Some("secret123")}
                       /\ (r.x_api_key # None => r.x_forwarded_for = None)}

NextLimiter ==
    \/ \E request \in LimiterRequests : LimiterCheck(request)
    \/ \E d \in TickSteps : Tick(d)

SpecLimiter == InitLimiter /\ [][NextLimiter]_vars

\* The two gates under every configuration
InitGate ==
    /\ \E env \in Envs, k \in Secrets, a \in Secrets :
          settings = [DefaultSettings EXCEPT
                         !.ENV = env, !.API_KEY = k, !.ADMIN_API_KEY = a]
    /\ InitLimiterVars(SINGLETON_REQUESTS_PER_MINUTE)
    /\ gateCall = None
    /\ InitApp(None)

NextGate == \E gate \in Gates, header \in GateHeaders : GateCheck(gate, header)

SpecGate == InitGate /\ [][NextGate]_vars

\* The dependencies of /query against the limiter singleton, for every
\* configured ceiling: a burst of requests, a pause of 61 seconds, a burst
ConfiguredCeilings == (1..MaxCeiling) \cup {DEFAULT_RATE_LIMIT_PER_MINUTE}
InitAdmission ==
    /\ \E env \in Envs, n \in ConfiguredCeilings :
          settings = [DefaultSettings EXCEPT
                         !.ENV = env, !.API_KEY = "secret123",
                         !.ADMIN_API_KEY = "admin456",
                         !.RATE_LIMIT_PER_MINUTE = n]
    /\ InitLimiterVars(SINGLETON_REQUESTS_PER_MINUTE)
    /\ gateCall = None
    /\ InitApp(None)

NextAdmission ==
    \/ \E request \in AdmissionRequests : Admission(request)
    \/ now = 0 /\ Tick(Window + 1)

SpecAdmission == InitAdmission /\ [][NextAdmission]_vars

\* The service: one process in local or in prod mode
DiskIndex == [build |-> DiskBuild, n |-> 5]
InitDisks ==
    {None,
     [index |-> DiskIndex, metadata |-> Some(Metadata(DefaultSettings))],
     [index |-> DiskIndex,
      metadata |-> Some([provider |-> "openai",
                         model |-> "text-embedding-3-small"])],
     [index |-> DiskIndex,
      metadata |-> Some([provider |-> "sentence_transformers",
                         model |-> "all-mpnet-base-v2"])]}

Init ==
    /\ \E env \in Envs :
          settings = [DefaultSettings EXCEPT
                         !.ENV = env, !.API_KEY = "secret123",
                         !.ADMIN_API_KEY = "admin456"]
    /\ InitLimiterVars(SINGLETON_REQUESTS_PER_MINUTE)
    /\ gateCall = None
    /\ \E d \in InitDisks : InitApp(d)

Next ==
    \/ \E out \in StartupOutcomes : startup(out)
    \/ \E r \in 1..MaxIngests, h \in AdminKeyHeaders :
          \E o \in IF settings.ENV = "prod" THEN {NoOutcome} ELSE SyncOutcomes :
              ingest_documents(r, h, o)
    \/ \E r \in 1..MaxIngests : JobStart(r)
    \/ \E r \in 1..MaxIngests, out \in IngestOutcomes : JobIngest(r, out)
    \/ \E r \in 1..MaxIngests, out \in CallOutcomes : JobCreateIndex(r, out)
    \/ \E r \in 1..MaxIngests, out \in SaveOutcomes : JobSaveIndex(r, out)
    \/ \E r \in 1..MaxIngests, out \in CallOutcomes : JobCreateChain(r, out)
    \/ \E q \in 1..MaxQueries, request \in QueryRequests, k \in QueryKs :
          query_rag(q, request, k)
    \/ \E q \in 1..MaxQueries, out \in CallOutcomes : QueryRetrieve(q, out)
    \/ \E q \in 1..MaxQueries, out \in CallOutcomes : QueryGenerate(q, out)

Spec == Init /\ [][Next]_vars

\* The asynchronous jobs alone, in prod.  The event loop runs every task it
\* holds ready, and every collaborator call made through asyncio.to_thread
\* returns or raises: each step of a job that stays possible is taken.
InitJobs ==
    /\ settings = [DefaultSettings EXCEPT
                      !.ENV = "prod", !.API_KEY = "secret123",
                      !.ADMIN_API_KEY = "admin456"]
    /\ InitLimiterVars(SINGLETON_REQUESTS_PER_MINUTE)
    /\ gateCall = None
    /\ \E d \in InitDisks : InitApp(d)

NextJobs ==
    \/ \E out \in StartupOutcomes : startup(out)
    \/ \E r \in 1..MaxIngests, h \in AdminKeyHeaders :
          ingest_documents(r, h, NoOutcome)
    \/ \E r \in 1..MaxIngests : JobStart(r)
    \/ \E r \in 1..MaxIngests, out \in IngestOutcomes : JobIngest(r, out)
    \/ \E r \in 1..MaxIngests, out \in CallOutcomes : JobCreateIndex(r, out)
    \/ \E r \in 1..MaxIngests, out \in SaveOutcomes : JobSaveIndex(r, out)
    \/ \E r \in 1..MaxIngests, out \in CallOutcomes : JobCreateChain(r, out)

JobsFairness ==
    \A r \in 1..MaxIngests :
       /\ WF_vars(JobStart(r))
       /\ WF_vars(\E out \in IngestOutcomes : JobIngest(r, out))
       /\ WF_vars(\E out \in CallOutcomes : JobCreateIndex(r, out))
       /\ WF_vars(\E out \in SaveOutcomes : JobSaveIndex(r, out))
       /\ WF_vars(\E out \in CallOutcomes : JobCreateChain(r, out))

SpecJobs == InitJobs /\ [][NextJobs]_vars /\ JobsFairness

(***************************************************************************)
(* Properties                                                              *)
(***************************************************************************)
Runs == 1..MaxIngests
Queries == 1..MaxQueries
ConfiguredSecret(gate) ==
    IF gate = "query" THEN settings.API_KEY ELSE settings.ADMIN_API_KEY

\* C1: for every key the number of calls admitted in any trailing 60-second
\* window (t - 60, t] never exceeds the ceiling, and a check made while the
\* ceiling's worth of admitted calls of its key lie in the last 60 seconds is
\* rejected with 429.
C1_WindowCeiling ==
    /\ \A key \in DOMAIN admitted : \A t \in 0..now :
          AdmittedIn(key, t) <= requests_per_minute
    /\ lastCheck # None =>
          (lastCheck.before >= requests_per_minute => lastCheck.raised = 429)

\* a key is rejected at its ceiling after earlier admissions have expired
C1_Witness ==
    /\ lastCheck # None
    /\ lastCheck.raised = 429
    /\ lastCheck.before = requests_per_minute
    /\ Len(admitted[lastCheck.key]) > requests_per_minute

\* C2 as stated: in prod a missing header is 401, every present header that
\* differs from the secret is 403, and every header equal to the secret is
\* allowed; outside prod the gate allows.
C2_AsStated ==
    gateCall # None =>
        gateCall.raised =
            IF settings.ENV # "prod" THEN 0
            ELSE IF gateCall.header = None THEN 401
            ELSE IF Val(gateCall.header) # ConfiguredSecret(gateCall.gate) THEN 403
            ELSE 0

\* C2 amended: outside prod both gates allow; in prod a missing or empty
\* header is 401, a non-empty header that differs from the secret is 403, and
\* a non-empty header equal to the secret is allowed.
C2_Gates ==
    gateCall # None =>
        gateCall.raised =
            IF settings.ENV # "prod" THEN 0
            ELSE IF gateCall.header = None \/ gateCall.header = Some("") THEN 401
            ELSE IF Val(gateCall.header) # ConfiguredSecret(gateCall.gate) THEN 403
            ELSE 0

\* the query gate, in prod with the secret left empty, refuses the empty header
C2_Witness ==
    /\ gateCall # None
    /\ settings.ENV = "prod"
    /\ gateCall.gate = "query"
    /\ gateCall.header = Some("")
    /\ ConfiguredSecret("query") = ""
    /\ gateCall.raised = 401

\* C3: the published snapshot is None or a RAGState whose chain was built on
\* its own index; a query that captured a snapshot runs its retrieval call and
\* its generation call on the chain of that snapshot, whatever is published
\* meanwhile.
FullyBuilt(s) == s.chain.index = s.index /\ s.chain.k = DEFAULT_K
C3_AtomicSnapshot ==
    /\ rag # None => FullyBuilt(rag)
    /\ \A q \in Queries :
          /\ queries[q].rag # None => FullyBuilt(queries[q].rag)
          /\ queries[q].retr_on # None =>
                queries[q].retr_on = queries[q].rag.chain
          /\ queries[q].gen_on # None =>
                queries[q].gen_on = queries[q].rag.chain

\* a query has retrieved on the snapshot it captured, generation is still to
\* come, and another snapshot has been published in between
C3_Witness ==
    \E q \in Queries :
        /\ queries[q].pc = "generate"
        /\ queries[q].retr_on = queries[q].rag.chain
        /\ rag # queries[q].rag

\* C4: a job record is created pending and its status only moves
\* pending -> running -> completed or pending -> running -> failed; records
\* are never removed.
StatusStep(a, b) ==
    \/ a = b
    \/ a = "pending" /\ b = "running"
    \/ a = "running" /\ b \in {"completed", "failed"}
C4_StatusSteps ==
    [][/\ DOMAIN ingest_jobs \subseteq DOMAIN ingest_jobs'
       /\ \A j \in DOMAIN ingest_jobs' :
             IF j \in DOMAIN ingest_jobs
             THEN StatusStep(ingest_jobs[j].status, ingest_jobs'[j].status)
             ELSE ingest_jobs'[j].status = "pending"]_vars

\* one job has completed and another has failed
C4_Witness ==
    \E i, j \in DOMAIN ingest_jobs :
        ingest_jobs[i].status = "completed" /\ ingest_jobs[j].status = "failed"

\* C5: the step in which an ingest run fails (the job becomes failed, or the
\* synchronous request is answered with an error) leaves app.state.rag as it
\* was, and no other step of that run has assigned it; app.state.rag changes
\* only at startup or in the step in which a run succeeds.
RunFailed(r) == runs[r].pc = "done" /\ runs[r].exc # None
RunSucceeded(r) ==
    /\ runs[r].pc = "done"
    /\ runs[r].exc = None
    /\ IF settings.ENV = "prod"
       THEN r \in DOMAIN ingest_jobs /\ ingest_jobs[r].status = "completed"
       ELSE runs[r].resp.code = 200
C5_FailedRunKeepsSnapshot ==
    [][/\ \A r \in Runs :
             /\ RunFailed(r)' /\ ~RunFailed(r) => rag' = rag
             /\ RunFailed(r)' => ~runs'[r].replaced
       /\ rag' # rag =>
             \/ ~started
             \/ \E r \in Runs : RunSucceeded(r)' /\ ~RunSucceeded(r)]_vars

\* a run failed after it had persisted its index, and the
\* snapshot served is not the one it built
C5_Witness ==
    \E r \in Runs :
        /\ RunFailed(r)
        /\ disk # None
        /\ disk.index.build = r
        /\ (rag = None \/ rag.index.build # r)

\* C6 as stated: a query on a captured snapshot whose retrieval and
\* generation calls both returned is answered 200 with the generated answer
\* and the citations of the retrieved documents in retrieval order.
C6_AsStated ==
    \A q \in Queries :
        queries[q].pc = "done" /\ queries[q].gen_on # None =>
            /\ queries[q].resp.code = 200
            /\ queries[q].resp.body.answer = queries[q].answer
            /\ queries[q].resp.body.sources =
                  query_result(queries[q].answer, queries[q].docs).citations

\* C7 as stated: the retrieval of a query returns as many documents as the
\* request's k (4 when omitted) whenever the snapshot holds at least k.
C7_AsStated ==
    \A q \in Queries :
        /\ queries[q].retr_on # None
        /\ queries[q].rag.index.n >= Val(queries[q].k)
        => Len(queries[q].docs) = Val(queries[q].k)

\* C8 as stated: in prod the POST /ingest that registered job r was answered
\* 200 with job_id r and status "started", and the status lookup of r with
\* the admin key finds the record of r.
C8_AsStated ==
    settings.ENV = "prod" =>
        \A r \in DOMAIN ingest_jobs :
            /\ runs[r].resp.code = 200
            /\ runs[r].resp.body.job_id = r
            /\ runs[r].resp.body.status = "started"
            /\ get_ingest_status(r, Some(settings.ADMIN_API_KEY)).code = 200
            /\ get_ingest_status(r, Some(settings.ADMIN_API_KEY)).body.job_id = r

QueryRejected(query) ==
    query.resp # None /\ query.resp.code \in {401, 403, 429}
C10_NotReady ==
    [][\A q \in Queries :
          /\ queries[q].pc = "idle"
          /\ queries'[q].pc # "idle"
          /\ rag = None
          /\ ~QueryRejected(queries'[q])
          => /\ queries'[q].pc = "done"
             /\ queries'[q].resp # None
             /\ queries'[q].resp.code = 400
             /\ queries'[q].retr_on = None
             /\ queries'[q].gen_on = None]_vars

\* in prod a query with the right key was answered 400
C10_Witness ==
    /\ settings.ENV = "prod"
    /\ \E q \in Queries :
          /\ queries[q].pc = "done"
          /\ queries[q].resp.code = 400
          /\ lastCheck # None
          /\ lastCheck.raised = 0

\* C11: a check for one key leaves the bucket of every other key as it was
\* and adds no key but its own to the table; a check is rejected only when
\* the admitted calls of its own key fill the window, whatever the other
\* keys have used.
C11_KeysIndependent ==
    [][nchecks' # nchecks =>
          /\ DOMAIN requests' = DOMAIN requests \cup {lastCheck'.key}
          /\ \A k \in DOMAIN requests :
                k # lastCheck'.key => requests'[k] = requests[k]
          /\ lastCheck'.raised = 429 =>
                AdmittedIn(lastCheck'.key, now) >= requests_per_minute]_vars

\* a key is admitted while another key has used up its budget in the window
C11_Witness ==
    /\ lastCheck # None
    /\ lastCheck.raised = 0
    /\ \E a \in DOMAIN requests :
          /\ a # lastCheck.key
          /\ Len(requests[a]) = requests_per_minute
          /\ AdmittedIn(a, lastCheck.at) = requests_per_minute
          /\ requests[a][1] < lastCheck.at

\* The calls of the key of the last check admitted before that check
PriorAdmitted ==
    LET a == IF lastCheck.key \in DOMAIN admitted
             THEN admitted[lastCheck.key] ELSE << >>
    IN  IF lastCheck.raised = 0 THEN SubSeq(a, 1, Len(a) - 1) ELSE a

\* C12: a check made when every admitted call of its key is more than 60
\* seconds old is admitted.
C12_WindowSlides ==
    lastCheck # None =>
       ((\A i \in DOMAIN PriorAdmitted :
            PriorAdmitted[i] + Window < lastCheck.at)
        => lastCheck.raised = 0)

\* a key that filled its window is admitted again 61 seconds or more later
C12_Witness ==
    /\ lastCheck # None
    /\ lastCheck.raised = 0
    /\ Len(PriorAdmitted) = requests_per_minute
    /\ PriorAdmitted[Len(PriorAdmitted)] - PriorAdmitted[1] < Window
    /\ PriorAdmitted[Len(PriorAdmitted)] + Window < lastCheck.at

\* C15: checks are serialized: no bucket holds more than the ceiling's worth
\* of timestamps, and the timestamps a bucket holds in the current window are
\* exactly the calls of its key admitted in that window, each recorded once.
C15_SerializedChecks ==
    /\ DOMAIN admitted \subseteq DOMAIN requests
    /\ \A key \in DOMAIN requests :
          /\ Len(requests[key]) <= requests_per_minute
          /\ Len(Prune(requests[key], now)) = AdmittedIn(key, now)

\* two checks of one key at the same instant with one slot left: the first
\* was admitted and the second rejected
C15_Witness ==
    /\ lastCheck # None
    /\ lastCheck.raised = 429
    /\ requests_per_minute > 1
    /\ LET a == admitted[lastCheck.key]
       IN  /\ a[Len(a)] = lastCheck.at
           /\ a[Len(a) - 1] < lastCheck.at
           /\ Len(requests[lastCheck.key]) = requests_per_minute

\* The key every admitted /query is counted under in prod
ConfiguredKey == <<"key", settings.API_KEY>>

\* C13 as stated: with the ceiling configured as N (RATE_LIMIT_PER_MINUTE),
\* at most N requests of a key are admitted in a window and a request that
\* finds N admitted requests of its key in the window is rejected.
C13_AsStated ==
    settings.ENV = "prod" =>
       /\ \A key \in DOMAIN admitted :
             AdmittedIn(key, now) <= settings.RATE_LIMIT_PER_MINUTE
       /\ lastCheck # None =>
             (lastCheck.before >= settings.RATE_LIMIT_PER_MINUTE
                 => lastCheck.raised = 429)

\* C16: in prod a /query whose header is missing, empty or different from
\* the configured key is refused with 401 or 403, never 429, and its step
\* leaves every bucket and the count of limiter calls unchanged.
C16_GateBeforeLimiter ==
    [][/\ settings.ENV = "prod"
       /\ gateCall' # None
       /\ (Falsy(gateCall'.header) \/ Val(gateCall'.header) # settings.API_KEY)
       => /\ gateCall'.raised \in {401, 403}
          /\ UNCHANGED <<requests, admitted, nchecks>>]_vars

\* a request without the right key is refused by the gate while the bucket
\* of the configured key is full
C16_Witness ==
    /\ settings.ENV = "prod"
    /\ gateCall # None
    /\ gateCall.raised \in {401, 403}
    /\ ConfiguredKey \in DOMAIN requests
    /\ Len(Prune(requests[ConfiguredKey], now)) = requests_per_minute
    /\ DOMAIN requests = {ConfiguredKey}

\* C20: in prod the bucket table holds no key but that of the configured API
\* key, so never an address key, and the requests admitted in a window, all
\* clients together, never exceed the ceiling of the limiter.
C20_SingleBucket ==
    settings.ENV = "prod" =>
       /\ DOMAIN requests \subseteq {ConfiguredKey}
       /\ DOMAIN admitted \subseteq {ConfiguredKey}
       /\ \A key \in DOMAIN admitted :
             AdmittedIn(key, now) <= requests_per_minute

\* with the bucket full, a request with the right key arriving from another
\* address is rejected
C20_Witness ==
    /\ settings.ENV = "prod"
    /\ lastCheck # None
    /\ lastCheck.raised = 429
    /\ lastCheck.key = ConfiguredKey
    /\ gateCall.raised = 429
    /\ gateCall.request.x_forwarded_for # None
    /\ DOMAIN requests = {ConfiguredKey}
    /\ Len(requests[ConfiguredKey]) = requests_per_minute

\* The index directory records a provider or a model other than the
\* configured one
Incompatible(d) ==
    d # None /\ d.metadata # None /\ Val(d.metadata) # Metadata(settings)

\* C14: at startup, load_index on a directory whose metadata names another
\* provider or another model raises the mismatch error, the published
\* snapshot stays none and the process is started; the snapshot never holds
\* the index of a directory whose metadata is incompatible.
C14_MismatchNotPublished ==
    [][/\ (~started /\ started' /\ Incompatible(disk))
          => /\ ~load_index(disk, settings).ok
             /\ load_index(disk, settings).exc = "ValueError"
             /\ rag' = None
       /\ (rag' # None /\ disk' # None /\ rag'.index = disk'.index)
          => ~Incompatible(disk')]_vars

\* started on a directory recording another model of the same provider: no
\* snapshot is published and a query is answered 400
C14_Witness ==
    /\ started
    /\ rag = None
    /\ Incompatible(disk)
    /\ Val(disk.metadata).provider = settings.EMBEDDINGS_PROVIDER
    /\ disk.index = DiskIndex
    /\ \E q \in Queries :
          queries[q].pc = "done" /\ queries[q].resp.code = 400

Terminal == {"completed", "failed"}

\* C17: in every state of every job record chunks_processed is set exactly
\* when the status is completed, error exactly when it is failed and
\* completed_at exactly when it is completed or failed; the error of a failed
\* job is the exception its stage raised, and no step of a job changes the
\* response given to the request that started it.
C17_JobRecord ==
    [][\A r \in DOMAIN ingest_jobs' :
          LET job == ingest_jobs'[r]
          IN  /\ (job.chunks_processed # None) <=> (job.status = "completed")
              /\ (job.error # None) <=> (job.status = "failed")
              /\ (job.completed_at # None) <=> (job.status \in Terminal)
              /\ job.status = "failed" => job.error = runs'[r].exc
              /\ r \in DOMAIN ingest_jobs => runs'[r].resp = runs[r].resp]_vars

\* a job failed in its first stage: the error is on the record and the
\* request that started it has the response it was given at acceptance
C17_Witness ==
    \E r \in DOMAIN ingest_jobs :
       /\ ingest_jobs[r].status = "failed"
       /\ ingest_jobs[r].error = Some("FileNotFoundError")
       /\ ingest_jobs[r].completed_at # None
       /\ ingest_jobs[r].chunks_processed = None
       /\ runs[r].resp # None

\* C18: in prod every job that completes publishes its own snapshot at that
\* step, whatever other jobs are running or have published, and after startup
\* the snapshot changes in no other step: the published snapshot is that of
\* the job that replaced last.
C18_LastReplaceWins ==
    [][settings.ENV = "prod" =>
          /\ \A r \in Runs :
                (~runs[r].replaced /\ runs'[r].replaced)
                => /\ rag' # None
                   /\ rag'.index.build = r
                   /\ rag'.chain.index = rag'.index
          /\ (started /\ rag' # rag)
                => \E r \in Runs : ~runs[r].replaced /\ runs'[r].replaced]_vars

\* both jobs completed and the snapshot is that of the job accepted first:
\* it replaced after the job accepted last
C18_Witness ==
    /\ MaxIngests >= 2
    /\ {1, 2} \subseteq DOMAIN ingest_jobs
    /\ ingest_jobs[1].status = "completed"
    /\ ingest_jobs[2].status = "completed"
    /\ rag # None
    /\ rag.index.build = 1

\* C19: every job in the registry eventually has status completed or failed.
C19_JobsTerminate ==
    \A r \in Runs :
       (r \in DOMAIN ingest_jobs)
          ~> (r \in DOMAIN ingest_jobs /\ ingest_jobs[r].status \in Terminal)

\* every request was accepted as a job and every job has ended, one of them
\* failed and one completed
C19_Witness ==
    /\ \A r \in Runs :
          r \in DOMAIN ingest_jobs /\ ingest_jobs[r].status \in Terminal
    /\ \E r \in Runs : runs[r].exc = Some("Exception")
    /\ \E r \in Runs : runs[r].replaced

\* C21: outside prod no /query calls limiter.check: every request passes its
\* dependencies, none is answered 429, and the bucket table stays empty.
C21_LocalNeverLimited ==
    [][settings.ENV # "prod" =>
          /\ UNCHANGED <<requests, admitted, lastCheck, nchecks>>
          /\ requests' = << >>
          /\ nchecks' = 0
          /\ gateCall' # None => gateCall'.raised = 0]_vars

\* outside prod a request carrying a key that is not the configured one has
\* passed the dependencies of /query and no bucket exists
C21_Witness ==
    /\ settings.ENV = "local"
    /\ gateCall # None
    /\ gateCall.request.x_api_key = Some("wrongkey")
    /\ gateCall.request.x_forwarded_for # None
    /\ gateCall.raised = 0
    /\ requests = << >>
    /\ lastCheck = None

\* C22 as stated: in prod, when jobs were accepted and every one of them is
\* completed or failed, the index in the index directory is the index of the
\* published snapshot.
C22_AsStated ==
    (/\ settings.ENV = "prod"
     /\ DOMAIN ingest_jobs # {}
     /\ \A r \in DOMAIN ingest_jobs : ingest_jobs[r].status \in Terminal
     /\ rag # None
     /\ disk # None)
    => rag.index = disk.index

\* C23: /health answers 200 with index_loaded true exactly when a snapshot
\* is published; no step takes a published snapshot away; and a /query
\* handled while a snapshot is published is not answered 400.
C23_NeverUnpublished ==
    [][/\ health.code = 200 /\ health'.code = 200
       /\ health.body.index_loaded = (rag # None)
       /\ health'.body.index_loaded = (rag' # None)
       /\ rag # None => rag' # None
       /\ \A q \in Queries :
             (rag # None /\ queries[q].pc = "idle" /\ queries'[q].pc # "idle")
             => ~(queries'[q].resp # None /\ queries'[q].resp.code = 400)]_vars

\* the snapshot of an ingest is published, another ingest has failed,
\* /health reports the snapshot and a query is being handled on it
C23_Witness ==
    /\ rag # None
    /\ health.body.index_loaded
    /\ \E r \in Runs : runs[r].replaced /\ rag.index.build = r
    /\ \E r \in Runs : runs[r].pc = "done" /\ runs[r].exc # None
    /\ \E q \in Queries : queries[q].pc = "retrieve" /\ queries[q].rag = rag

====
